---------------------------- MODULE Spec2Model ----------------------------
(***************************************************************************)
(* CostWatch: the cost-retrieval strategies of src/src/cost_fetcher.py,    *)
(* the strategy selection of src/src/main.py and the poll scheduler that   *)
(* main starts.                                                            *)
(*                                                                         *)
(* Money.  A ledger amount is an integer number of mills (0.001 currency   *)
(* units); a reported cost, after round(x, 2), is an integer number of     *)
(* cents.  Python rounds the binary double, so a decimal tie (..5 mills)   *)
(* goes up or down with the representation of the sum: the direction of a  *)
(* tie is an input (halfUp), both outcomes are explored.                   *)
(***************************************************************************)
EXTENDS Integers, Sequences, FiniteSets, TLC

VARIABLES
    cfg,        \* config: [use_simulated_data, display_month]
    fault,      \* what a Cost Explorer call raises now ("none": it answers)
    ledger,     \* the provider's cost ledger: rows [service, record_type, amount]
    trail,      \* the CloudTrail side: [avail, fails, events]
    halfUp,     \* direction round() takes on a decimal tie
    metrics,    \* the CloudWatch billing metrics: [fault, total, services, fails]
    pc,         \* main's position
    fetcher,    \* main's local `fetcher`
    probe,      \* the test call made during selection: [strategy, ok, error, month_to_date]
    probes,     \* strategies main has called itself, in order
    dialogs,    \* titles of the error dialogs shown
    warnings,   \* warnings printed by the selection
    running,    \* scheduler: started and not stopped
    inflight,   \* scheduler: retrieval invocations in flight
    pending,    \* scheduler: one invocation queued behind the one in flight
    ticks,      \* scheduler: timer ticks fired so far
    schedFetcher, \* scheduler: the fetch function it was constructed with
    invoked,    \* scheduler: the strategies it has invoked, in order
    shown,      \* the snapshot last delivered to the widget
    input,      \* argument of the function under test (function specifications)
    output      \* its result

vars == <<cfg, fault, ledger, trail, halfUp, metrics, pc, fetcher, probe, probes, dialogs,
          warnings, running, inflight, pending, ticks, schedFetcher, invoked, shown,
          input, output>>

envVars   == <<cfg, fault, ledger, trail, halfUp, metrics>>
mainVars  == <<pc, fetcher, probe, probes, dialogs, warnings>>
schedVars == <<running, inflight, pending, ticks, schedFetcher, invoked, shown>>
funVars   == <<input, output>>

\* ------------------------------------------------------------------ bounds

MaxRows == 2
MaxTicks == 2
MaxLen == 3
MaxLimit == 2
MaxNames == 3

\* ------------------------------------------------------- program constants

DefaultLimit == 10
MaxResults == 50
\* 0.001 currency units, in mills
Threshold == 1

\* ----------------------------------------------------------------- helpers

Range(s) == {s[i] : i \in 1..Len(s)}

Min(a, b) == IF a <= b THEN a ELSE b

Max(a, b) == IF a >= b THEN a ELSE b

SeqsUpTo(S, n) == UNION {[1..k -> S] : k \in 0..n}

\* n/d rounded to the nearest integer (d > 0); a tie goes up iff `up`
RoundTo(n, d, up) ==
    LET q == n \div d
        r == n % d
    IN  IF 2 * r < d THEN q
        ELSE IF 2 * r > d THEN q + 1
        ELSE IF up THEN q + 1 ELSE q

\* round(x, 2): mills to cents
Round2(m, up) == RoundTo(m, 10, up)

\* ------------------------------------------------------- get_top_services

\* mutant: an entry goes before the entries of equal cost (an unstable sort)
RECURSIVE InsertDescBeforeEqual(_, _, _)
InsertDescBeforeEqual(sorted, e, i) ==
    IF i > Len(sorted) THEN Append(sorted, e)
    ELSE IF sorted[i].cost <= e.cost
         THEN SubSeq(sorted, 1, i - 1) \o <<e>> \o SubSeq(sorted, i, Len(sorted))
         ELSE InsertDescBeforeEqual(sorted, e, i + 1)

\* sorted(..., key=cost, reverse=True) is stable: an entry goes after every
\* entry whose cost is greater than or equal to its own
RECURSIVE InsertDesc(_, _, _)
InsertDesc(sorted, e, i) ==
    IF i > Len(sorted) THEN Append(sorted, e)
    ELSE IF sorted[i].cost < e.cost
         THEN SubSeq(sorted, 1, i - 1) \o <<e>> \o SubSeq(sorted, i, Len(sorted))
         ELSE InsertDesc(sorted, e, i + 1)

RECURSIVE SortedDesc(_, _, _)
SortedDesc(services, i, acc) ==
    IF i > Len(services) THEN acc
    ELSE SortedDesc(services, i + 1, InsertDesc(acc, services[i], 1))

\* s[:limit]
Slice(s, limit) ==
    IF limit >= 0 THEN SubSeq(s, 1, Min(limit, Len(s)))
    ELSE SubSeq(s, 1, Max(0, Len(s) + limit))

\* mutant: the list is cut to the limit without being sorted
get_top_services_unsorted(services, limit) == Slice(services, limit)

get_top_services(services, limit) ==
    LET sorted_services == SortedDesc(services, 1, <<>>)
    IN  Slice(sorted_services, limit)

\* ------------------------------------------------- fetch_service_activity

SERVICE_TO_EVENT_SOURCE ==
    ("Amazon EC2" :> "ec2.amazonaws.com") @@
    ("Amazon S3" :> "s3.amazonaws.com") @@
    ("Amazon RDS" :> "rds.amazonaws.com") @@
    ("AWS Lambda" :> "lambda.amazonaws.com") @@
    ("Amazon CloudFront" :> "cloudfront.amazonaws.com") @@
    ("Amazon DynamoDB" :> "dynamodb.amazonaws.com") @@
    ("Amazon ECS" :> "ecs.amazonaws.com") @@
    ("Amazon SQS" :> "sqs.amazonaws.com") @@
    ("Amazon SNS" :> "sns.amazonaws.com") @@
    ("AWS Fargate" :> "ecs.amazonaws.com") @@
    ("Amazon EKS" :> "eks.amazonaws.com") @@
    ("Amazon ElastiCache" :> "elasticache.amazonaws.com") @@
    ("Amazon Redshift" :> "redshift.amazonaws.com") @@
    ("AWS Glue" :> "glue.amazonaws.com") @@
    ("Amazon CloudWatch" :> "monitoring.amazonaws.com") @@
    ("AWS Key Management Service" :> "kms.amazonaws.com") @@
    ("Amazon Route 53" :> "route53.amazonaws.com") @@
    ("Amazon API Gateway" :> "apigateway.amazonaws.com") @@
    ("AWS Secrets Manager" :> "secretsmanager.amazonaws.com") @@
    ("Amazon Elastic Load Balancing" :> "elasticloadbalancing.amazonaws.com")

\* service_name.lower().replace("amazon ", "").replace("aws ", "").replace(" ", "")
\* + ".amazonaws.com", for the unmapped names of the model
DerivedEventSource(service_name) ==
    CASE service_name = "AWS WAF" -> "waf.amazonaws.com"
      [] service_name = "AWS Amplify" -> "amplify.amazonaws.com"
      [] OTHER -> "other.amazonaws.com"

EventSource(service_name) ==
    IF service_name \in DOMAIN SERVICE_TO_EVENT_SOURCE
    THEN SERVICE_TO_EVENT_SOURCE[service_name]
    ELSE DerivedEventSource(service_name)

\* client.lookup_events(..., MaxResults=50) for one service: it raises, or it
\* answers with at most MaxResults events
LookupRaises(service_name, tr) == service_name \in tr.fails

LookupCount(service_name, tr) == Min(tr.events[EventSource(service_name)], MaxResults)

\* the body of the for loop: the dict after the lookup of service_name
ActivityStep(activity, service_name, tr) ==
    IF LookupRaises(service_name, tr)
    THEN (service_name :> 0) @@ activity
    ELSE (service_name :> LookupCount(service_name, tr)) @@ activity

RECURSIVE ActivityLoop(_, _, _, _)
ActivityLoop(service_names, tr, i, acc) ==
    IF i > Len(service_names) THEN acc
    ELSE ActivityLoop(service_names, tr, i + 1,
            [activity |-> ActivityStep(acc.activity, service_names[i], tr),
             queried  |-> Append(acc.queried, EventSource(service_names[i]))])

NoActivity == [n \in {} |-> 0]

\* mutant: no try around the lookup, so the first failing lookup reaches the
\* outer except and every name gets 0
RECURSIVE LookupsUntilFailure(_, _, _)
LookupsUntilFailure(service_names, tr, i) ==
    IF i > Len(service_names) THEN << >>
    ELSE <<EventSource(service_names[i])>>
         \o (IF LookupRaises(service_names[i], tr) THEN << >>
             ELSE LookupsUntilFailure(service_names, tr, i + 1))

fetch_service_activity_unguarded(service_names, tr) ==
    IF tr.avail # "ok"
    THEN [activity |-> [n \in Range(service_names) |-> 0], queried |-> <<>>]
    ELSE IF \E n \in Range(service_names) : LookupRaises(n, tr)
         THEN [activity |-> [n \in Range(service_names) |-> 0],
               queried |-> LookupsUntilFailure(service_names, tr, 1)]
         ELSE ActivityLoop(service_names, tr, 1, [activity |-> NoActivity, queried |-> <<>>])

\* the dict returned, and the lookups issued on the way
fetch_service_activity(service_names, tr) ==
    IF tr.avail # "ok"
    THEN [activity |-> [n \in Range(service_names) |-> 0], queried |-> <<>>]
    ELSE ActivityLoop(service_names, tr, 1, [activity |-> NoActivity, queried |-> <<>>])

\* activity_data.get(name, 0)
Get(activity, name) == IF name \in DOMAIN activity THEN activity[name] ELSE 0

\* ---------------------------------------------------------------- CostData

CostData(mtd, top) == [month_to_date |-> mtd, top_services |-> top]

NoData == CostData(0, <<>>)

\* a strategy returns a CostData or raises an Exception with a message
Returned(data) == [ok |-> TRUE, error |-> "none", data |-> data]

Raised(message) == [ok |-> FALSE, error |-> message, data |-> NoData]

\* [(name, cost, activity_data.get(name, 0)) for name, cost in top_services]
RECURSIVE WithActivity(_, _, _)
WithActivity(top_services, activity, i) ==
    IF i > Len(top_services) THEN <<>>
    ELSE <<[name     |-> top_services[i].name,
            cost     |-> top_services[i].cost,
            activity |-> Get(activity, top_services[i].name)]>>
         \o WithActivity(top_services, activity, i + 1)

Names(top_services) == [i \in 1..Len(top_services) |-> top_services[i].name]

\* ------------------------------------------------- the provider's answers

\* "credentials" in str(e).lower() or "NoCredentialsError" in str(e):
\*   NoCredentialsError  "Unable to locate credentials"
\*   AccessDenied        "... is not authorized to perform: ce:GetCostAndUsage"
MentionsCredentials(f) == f = "NoCredentialsError"

\* the except clauses shared by the Cost Explorer strategies
StrategyError(f) ==
    IF f = "ImportError" THEN Raised("boto3 is required for AWS integration")
    ELSE IF MentionsCredentials(f) THEN Raised("AWS credentials not found")
    ELSE Raised(f)

\* get_cost_and_usage grouped by RECORD_TYPE: Keys[0] is the record type
ByRecordType(rows) ==
    [i \in 1..Len(rows) |-> [keys |-> <<rows[i].record_type>>, amount |-> rows[i].amount]]

\* grouped by SERVICE and RECORD_TYPE
ByServiceAndRecordType(rows) ==
    [i \in 1..Len(rows) |->
        [keys |-> <<rows[i].service, rows[i].record_type>>, amount |-> rows[i].amount]]

\* grouped by SERVICE
ByService(rows) ==
    [i \in 1..Len(rows) |-> [keys |-> <<rows[i].service>>, amount |-> rows[i].amount]]

\* ----------------------------------------------------- service_cost_map

\* a dict in insertion order, as a sequence of [name, cost]
RECURSIVE MapAdd(_, _, _, _)
MapAdd(map, name, cost, i) ==
    IF i > Len(map) THEN Append(map, [name |-> name, cost |-> cost])
    ELSE IF map[i].name = name
         THEN [map EXCEPT ![i].cost = @ + cost]
         ELSE MapAdd(map, name, cost, i + 1)

\* for service_name, cost in service_cost_map.items(): if cost > 0.001:
\*     service_costs.append((service_name, round(cost, 2)))
RECURSIVE FilterNegligible(_, _, _)
FilterNegligible(map, up, i) ==
    IF i > Len(map) THEN <<>>
    ELSE (IF map[i].cost > Threshold
          THEN <<[name |-> map[i].name, cost |-> Round2(map[i].cost, up)]>>
          ELSE <<>>)
         \o FilterNegligible(map, up, i + 1)

\* --------------------------------------- fetch_aws_costs_before_credits

\* mutant: credits are added to usage_cost (the net total)
RECURSIVE SumRecordTypesNet(_, _, _)
SumRecordTypesNet(groups, i, acc) ==
    IF i > Len(groups) THEN acc
    ELSE LET record_type == groups[i].keys[1]
             cost == groups[i].amount
         IN  SumRecordTypesNet(groups, i + 1,
                IF record_type \in {"Usage", "Credit"}
                THEN [acc EXCEPT !.usage_cost = @ + cost]
                ELSE acc)

\* the first loop: usage_cost and credit_amount
RECURSIVE SumRecordTypes(_, _, _)
SumRecordTypes(groups, i, acc) ==
    IF i > Len(groups) THEN acc
    ELSE LET record_type == groups[i].keys[1]
             cost == groups[i].amount
         IN  SumRecordTypes(groups, i + 1,
                IF record_type = "Usage"
                THEN [acc EXCEPT !.usage_cost = @ + cost]
                ELSE IF record_type = "Credit"
                     THEN [acc EXCEPT !.credit_amount = @ + cost]
                     ELSE acc)

\* the second loop: only usage, only positive amounts
RECURSIVE UsageByService(_, _, _)
UsageByService(groups, i, map) ==
    IF i > Len(groups) THEN map
    ELSE LET keys == groups[i].keys
             cost == groups[i].amount
         IN  UsageByService(groups, i + 1,
                IF Len(keys) >= 2 /\ keys[2] = "Usage" /\ cost > 0
                THEN MapAdd(map, keys[1], cost, 1)
                ELSE map)

fetch_aws_costs_before_credits(f, rows, tr, up) ==
    IF f # "none" THEN StrategyError(f)
    ELSE LET sums == SumRecordTypes(ByRecordType(rows), 1,
                        [usage_cost |-> 0, credit_amount |-> 0])
             service_cost_map == UsageByService(ByServiceAndRecordType(rows), 1, <<>>)
             service_costs == FilterNegligible(service_cost_map, up, 1)
             top_services == get_top_services(service_costs, DefaultLimit)
             activity_data == fetch_service_activity(Names(top_services), tr).activity
         IN  Returned(CostData(Round2(sums.usage_cost, up),
                               WithActivity(top_services, activity_data, 1)))

\* try: return fetch_aws_costs_before_credits()  except: print; raise
fetch_aws_costs(f, rows, tr, up) == fetch_aws_costs_before_credits(f, rows, tr, up)

\* ------------------------------------------------- fetch_november_costs

RECURSIVE CostByService(_, _, _)
CostByService(groups, i, map) ==
    IF i > Len(groups) THEN map
    ELSE CostByService(groups, i + 1, MapAdd(map, groups[i].keys[1], groups[i].amount, 1))

\* total_cost: the unrounded costs of the entries that pass the filter
RECURSIVE TotalAboveThreshold(_, _)
TotalAboveThreshold(map, i) ==
    IF i > Len(map) THEN 0
    ELSE (IF map[i].cost > Threshold THEN map[i].cost ELSE 0)
         + TotalAboveThreshold(map, i + 1)

fetch_november_costs(f, rows, up) ==
    IF f # "none" THEN StrategyError(f)
    ELSE LET service_cost_map == CostByService(ByService(rows), 1, <<>>)
             service_costs == FilterNegligible(service_cost_map, up, 1)
             total_cost == TotalAboveThreshold(service_cost_map, 1)
             top_services == get_top_services(service_costs, DefaultLimit)
             activity_data == [n \in Range(Names(top_services)) |-> 0]
         IN  Returned(CostData(Round2(total_cost, up),
                               WithActivity(top_services, activity_data, 1)))

\* ------------------------------------------------ fetch_simulated_costs

\* service_costs, in cents
SimServiceCosts ==
    << [name |-> "AWS WAF", cost |-> 148],
       [name |-> "AWS Amplify", cost |-> 34],
       [name |-> "AWS Cost Explorer", cost |-> 24],
       [name |-> "Amazon EC2 Container Registry (ECR)", cost |-> 4],
       [name |-> "Amazon Bedrock AgentCore", cost |-> 1],
       [name |-> "Amazon S3", cost |-> 1],
       [name |-> "Amazon CloudWatch", cost |-> 1] >>

\* activity_ranges: name -> (lo, hi)
activity_ranges ==
    ("AWS WAF" :> <<50, 200>>) @@
    ("AWS Amplify" :> <<10, 50>>) @@
    ("AWS Cost Explorer" :> <<5, 20>>) @@
    ("Amazon EC2 Container Registry (ECR)" :> <<20, 80>>) @@
    ("Amazon Bedrock AgentCore" :> <<5, 30>>) @@
    ("Amazon S3" :> <<100, 500>>) @@
    ("Amazon CloudWatch" :> <<200, 800>>)

\* random.uniform(0.9, 1.1), in thousandths
Variations == {900, 1000, 1100}

\* mutant: the deviation of the sample from 1 is applied twice
RandomizedCostsWide(variation, up) ==
    [i \in 1..Len(SimServiceCosts) |->
        [name |-> SimServiceCosts[i].name,
         cost |-> RoundTo(SimServiceCosts[i].cost * (2 * variation[i] - 1000), 1000, up)]]

\* cost = round(base_cost * variation, 2), variation[i] the i-th sample
RandomizedCosts(variation, up) ==
    [i \in 1..Len(SimServiceCosts) |->
        [name |-> SimServiceCosts[i].name,
         cost |-> RoundTo(SimServiceCosts[i].cost * variation[i], 1000, up)]]

RECURSIVE SumCosts(_, _)
SumCosts(costs, i) ==
    IF i > Len(costs) THEN 0 ELSE costs[i].cost + SumCosts(costs, i + 1)

\* random.randint(lo, hi): the low or the high end of the range
RandInt(range, high) == IF high THEN range[2] ELSE range[1]

fetch_simulated_costs(variation, high, up) ==
    LET randomized_costs == RandomizedCosts(variation, up)
        mtd == SumCosts(randomized_costs, 1)
        top_services == get_top_services(randomized_costs, DefaultLimit)
        rolls == [n \in Range(Names(top_services)) |->
                    RandInt(IF n \in DOMAIN activity_ranges
                            THEN activity_ranges[n] ELSE <<0, 50>>, high)]
    IN  Returned(CostData(mtd, WithActivity(top_services, rolls, 1)))

\* ------------------------------------------- fetch_cost_explorer_services

\* the service breakdown of the current month; [] on any exception
fetch_cost_explorer_services(f, rows, up) ==
    IF f # "none" THEN << >>
    ELSE FilterNegligible(CostByService(ByService(rows), 1, <<>>), up, 1)

\* --------------------------------------- fetch_cloudwatch_billing_metrics

services_to_check ==
    << "AmazonEC2", "AmazonS3", "AmazonRDS", "AWSLambda",
       "AmazonCloudFront", "AmazonDynamoDB", "AmazonECS", "AmazonSQS",
       "AmazonSNS", "AWSDataTransfer", "AmazonCloudWatch", "AWSWAF",
       "AWSAmplify", "AWSCostExplorer", "AmazonECR", "AmazonBedrock",
       "AWSSecretsManager", "AWSKeyManagementService", "AmazonAPIGateway", "AmazonCognito",
       "AmazonTextract", "AmazonRekognition", "AmazonComprehend", "AWSGlue" >>

\* service.replace('Amazon', 'Amazon ').replace('AWS', 'AWS ')
readable_name ==
    ("AmazonEC2" :> "Amazon EC2") @@
    ("AmazonS3" :> "Amazon S3") @@
    ("AmazonRDS" :> "Amazon RDS") @@
    ("AWSLambda" :> "AWS Lambda") @@
    ("AmazonCloudFront" :> "Amazon CloudFront") @@
    ("AmazonDynamoDB" :> "Amazon DynamoDB") @@
    ("AmazonECS" :> "Amazon ECS") @@
    ("AmazonSQS" :> "Amazon SQS") @@
    ("AmazonSNS" :> "Amazon SNS") @@
    ("AWSDataTransfer" :> "AWS DataTransfer") @@
    ("AmazonCloudWatch" :> "Amazon CloudWatch") @@
    ("AWSWAF" :> "AWS WAF") @@
    ("AWSAmplify" :> "AWS Amplify") @@
    ("AWSCostExplorer" :> "AWS CostExplorer") @@
    ("AmazonECR" :> "Amazon ECR") @@
    ("AmazonBedrock" :> "Amazon Bedrock") @@
    ("AWSSecretsManager" :> "AWS SecretsManager") @@
    ("AWSKeyManagementService" :> "AWS KeyManagementService") @@
    ("AmazonAPIGateway" :> "Amazon APIGateway") @@
    ("AmazonCognito" :> "Amazon Cognito") @@
    ("AmazonTextract" :> "Amazon Textract") @@
    ("AmazonRekognition" :> "Amazon Rekognition") @@
    ("AmazonComprehend" :> "Amazon Comprehend") @@
    ("AWSGlue" :> "AWS Glue")

\* sorted(Datapoints, key=Timestamp, reverse=True)[0]: the latest point, the
\* first of them in the answer when timestamps repeat
RECURSIVE LatestPoint(_, _, _)
LatestPoint(points, i, best) ==
    IF i > Len(points) THEN best
    ELSE LatestPoint(points, i + 1,
            IF points[i].Timestamp > best.Timestamp THEN points[i] ELSE best)

\* total_cost: 0.0, or the Maximum of the latest point of the aggregate metric
TotalCost(m) ==
    IF m.total = << >> THEN 0 ELSE LatestPoint(m.total, 2, m.total[1]).Maximum

\* get_metric_statistics scoped to one service: it raises, or answers its points
MetricRaises(m, service) == service \in m.fails

MetricPoints(m, service) ==
    IF service \in DOMAIN m.services THEN m.services[service] ELSE << >>

\* the body of the per-service loop: service_costs after the query of `service`
MetricStep(service_costs, m, service, up) ==
    IF MetricRaises(m, service) THEN service_costs
    ELSE LET points == MetricPoints(m, service)
         IN  IF points = << >> THEN service_costs
             ELSE LET cost == LatestPoint(points, 2, points[1]).Maximum
                  IN  IF cost > Threshold
                      THEN Append(service_costs,
                                  [name |-> readable_name[service], cost |-> Round2(cost, up)])
                      ELSE service_costs

RECURSIVE MetricLoop(_, _, _, _)
MetricLoop(m, up, i, service_costs) ==
    IF i > Len(services_to_check) THEN service_costs
    ELSE MetricLoop(m, up, i + 1, MetricStep(service_costs, m, services_to_check[i], up))

\* mutant: the fallback is taken whenever the total is positive
NeedsLedgerFallbackOnTotal(service_costs, total_cost) == total_cost > 0

\* if not service_costs and total_cost > 0
NeedsLedgerFallback(service_costs, total_cost) == service_costs = << >> /\ total_cost > 0

\* the strategy's result and the calls of fetch_cost_explorer_services it made
CloudwatchRun(m, f, rows, tr, up) ==
    IF m.fault # "none" THEN [result |-> StrategyError(m.fault), explorer_calls |-> 0]
    ELSE LET total_cost == TotalCost(m)
             from_metrics == MetricLoop(m, up, 1, << >>)
             fallback == NeedsLedgerFallback(from_metrics, total_cost)
             service_costs == IF fallback THEN fetch_cost_explorer_services(f, rows, up)
                              ELSE from_metrics
             top_services == get_top_services(service_costs, DefaultLimit)
             activity_data == fetch_service_activity(Names(top_services), tr).activity
         IN  [result |-> Returned(CostData(Round2(total_cost, up),
                                           WithActivity(top_services, activity_data, 1))),
              explorer_calls |-> IF fallback THEN 1 ELSE 0]

fetch_cloudwatch_billing_metrics(m, f, rows, tr, up) == CloudwatchRun(m, f, rows, tr, up).result

\* no billing metrics published
QuietMetrics ==
    [fault |-> "none", total |-> << >>, services |-> [x \in {} |-> << >>], fails |-> {}]

\* ------------------------------------------------------------ input sets

Faults == {"none", "ImportError", "NoCredentialsError", "AccessDenied"}

\* faults that come and go while the program runs
TransientFaults == {"none", "NoCredentialsError"}

LedgerServices == {"Amazon S3", "AWS WAF"}

Rows ==
    [service : LedgerServices, record_type : {"Usage"}, amount : {1, 2, 5, 14}]
    \cup [service : LedgerServices, record_type : {"Credit"}, amount : {-14}]
    \cup [service : LedgerServices, record_type : {"Tax"}, amount : {14}]

Ledgers == SeqsUpTo(Rows, MaxRows)

\* the ledgers of the program runs: empty or one row
RunLedgers == {<< >>} \cup {<<r>> : r \in Rows}

ActivityNames == {"Amazon S3", "AWS Fargate", "AWS WAF"}

EventSources == {EventSource(n) : n \in ActivityNames}

\* events in the 24 hour window, under and over the MaxResults cap
EventCounts == {3, 60}

Trails ==
    [avail : {"ok", "ImportError", "ClientError"},
     fails : SUBSET ActivityNames,
     events : [EventSources -> EventCounts]]

\* the CloudTrail side of the strategy runs
FetchTrails ==
    [avail : {"ok", "ClientError"},
     fails : {{}, {"Amazon S3"}},
     events : {[s \in EventSources |-> 3]}]

\* the CloudTrail side of the program runs
RunTrails == {tr \in FetchTrails : tr.avail = "ok"}

Configs == [use_simulated_data : BOOLEAN, display_month : {"current", "november"}]

NoProbe == [strategy |-> "none", ok |-> FALSE, error |-> "none", month_to_date |-> 0]

ProbeOf(strategy, r) ==
    [strategy |-> strategy, ok |-> r.ok, error |-> r.error,
     month_to_date |-> r.data.month_to_date]

MainStart ==
    /\ pc = "select"
    /\ fetcher = "none"
    /\ probe = NoProbe
    /\ probes = << >>
    /\ dialogs = << >>
    /\ warnings = << >>

SchedulerIdle ==
    /\ running = FALSE
    /\ inflight = 0
    /\ pending = FALSE
    /\ ticks = 0
    /\ schedFetcher = "none"
    /\ invoked = << >>
    /\ shown = NoData

FunIdle ==
    /\ input = << >>
    /\ output = << >>

\* ------------------------------------------------------------------ main

Init ==
    /\ cfg \in Configs
    /\ fault \in Faults
    /\ ledger \in RunLedgers
    /\ trail \in RunTrails
    /\ halfUp \in BOOLEAN
    /\ metrics = QuietMetrics
    /\ MainStart
    /\ SchedulerIdle
    /\ FunIdle

\* mutant: the credentials test runs before the simulated-data switch is read
SelectSimulatedAfterProbe ==
    /\ pc = "select"
    /\ cfg.use_simulated_data
    /\ probes' = Append(probes, "fetch_aws_costs")
    /\ probe' = ProbeOf("fetch_aws_costs", fetch_aws_costs(fault, ledger, trail, halfUp))
    /\ fetcher' = "fetch_simulated_costs"
    /\ pc' = "widget"
    /\ UNCHANGED <<dialogs, warnings>>
    /\ UNCHANGED <<envVars, schedVars, funVars>>

\* if config.use_simulated_data: fetcher = fetch_simulated_costs
SelectSimulated ==
    /\ pc = "select"
    /\ cfg.use_simulated_data
    /\ fetcher' = "fetch_simulated_costs"
    /\ pc' = "widget"
    /\ UNCHANGED <<probe, probes, dialogs, warnings>>
    /\ UNCHANGED <<envVars, schedVars, funVars>>

\* mutant: `>= 0` for `> 0`
NovemberChoiceZeroOk(r) ==
    IF r.ok /\ r.data.month_to_date >= 0
    THEN "fetch_november_costs"
    ELSE "fetch_simulated_costs"

\* the strategy committed after the November test call
NovemberChoice(r) ==
    IF r.ok /\ r.data.month_to_date > 0
    THEN "fetch_november_costs"
    ELSE "fetch_simulated_costs"

\* elif config.display_month == "november": test call, then commit
SelectNovember ==
    /\ pc = "select"
    /\ ~cfg.use_simulated_data
    /\ cfg.display_month = "november"
    /\ LET r == fetch_november_costs(fault, ledger, halfUp)
       IN  /\ probes' = Append(probes, "fetch_november_costs")
           /\ probe' = ProbeOf("fetch_november_costs", r)
           /\ fetcher' = NovemberChoice(r)
           /\ warnings' = IF r.ok /\ ~(r.data.month_to_date > 0)
                          THEN Append(warnings, "No charges in November 2025")
                          ELSE IF ~r.ok
                               THEN Append(warnings, "Error fetching November data")
                               ELSE warnings
    /\ pc' = "widget"
    /\ UNCHANGED dialogs
    /\ UNCHANGED <<envVars, schedVars, funVars>>

\* mutant: the except branch keeps the live fetcher
LiveChoiceKeepsLive(r) ==
    IF r.ok /\ r.data.month_to_date = 0
    THEN "fetch_simulated_costs"
    ELSE "fetch_aws_costs"

\* mutant: the zero-total test is missing
LiveChoiceNoZeroTest(r) ==
    IF r.ok
    THEN "fetch_aws_costs"
    ELSE "fetch_simulated_costs"

\* the strategy committed after the live test call
LiveChoice(r) ==
    IF r.ok /\ r.data.month_to_date # 0
    THEN "fetch_aws_costs"
    ELSE "fetch_simulated_costs"

\* else: test the AWS credentials with one call of fetch_aws_costs, then commit
SelectLive ==
    /\ pc = "select"
    /\ ~cfg.use_simulated_data
    /\ cfg.display_month # "november"
    /\ LET r == fetch_aws_costs(fault, ledger, trail, halfUp)
       IN  /\ probes' = Append(probes, "fetch_aws_costs")
           /\ probe' = ProbeOf("fetch_aws_costs", r)
           /\ fetcher' = LiveChoice(r)
           /\ warnings' = IF r.ok /\ r.data.month_to_date = 0
                          THEN Append(warnings, "Current month showing $0.00")
                          ELSE warnings
           /\ dialogs' = IF r.ok THEN dialogs
                         ELSE Append(dialogs, [title |-> "AWS Credentials Error",
                                               message |-> r.error])
    /\ pc' = "widget"
    /\ UNCHANGED <<envVars, schedVars, funVars>>

\* widget = AWSCostWidget(config); on an exception: dialog, sys.exit(1)
CreateWidget ==
    /\ pc = "widget"
    /\ \E created \in BOOLEAN :
         IF created
         THEN pc' = "start" /\ UNCHANGED dialogs
         ELSE /\ pc' = "exit"
              /\ dialogs' = Append(dialogs, [title |-> "Widget Error",
                                             message |-> "Failed to create widget"])
    /\ UNCHANGED <<fetcher, probe, probes, warnings>>
    /\ UNCHANGED <<envVars, schedVars, funVars>>

\* mutant: the scheduler is given fetch_aws_costs, not the selected fetcher
FetcherGivenLive(selected) == "fetch_aws_costs"

\* the fetcher main hands to UpdateScheduler(widget, fetcher, interval)
FetcherGiven(selected) == selected

\* scheduler = UpdateScheduler(widget, fetcher, config.refresh_interval); scheduler.start()
StartScheduler ==
    /\ pc = "start"
    /\ schedFetcher' = FetcherGiven(fetcher)
    /\ running' = TRUE
    /\ pc' = "run"
    /\ UNCHANGED <<inflight, pending, ticks, invoked, shown>>
    /\ UNCHANGED <<fetcher, probe, probes, dialogs, warnings>>
    /\ UNCHANGED <<envVars, funVars>>

\* -------------------------------------------------------- UpdateScheduler

\* the call a strategy name stands for; v and high are the random draws of
\* fetch_simulated_costs (one factor for all services in the program runs)
Call(strategy, v, high) ==
    CASE strategy = "fetch_simulated_costs" ->
            fetch_simulated_costs([i \in 1..Len(SimServiceCosts) |-> v], high, halfUp)
      [] strategy = "fetch_november_costs" -> fetch_november_costs(fault, ledger, halfUp)
      [] OTHER -> fetch_aws_costs(fault, ledger, trail, halfUp)

\* mutant: every tick starts an invocation
MayStartAlways(busy) == TRUE

\* a tick starts an invocation only when none is in flight
MayStart(busy) == busy = 0

\* the timer fires: start an invocation, or skip the tick, or queue one invocation
Tick ==
    /\ running
    /\ ticks < MaxTicks
    /\ ticks' = ticks + 1
    /\ IF MayStart(inflight)
       THEN /\ inflight' = inflight + 1
            /\ invoked' = Append(invoked, schedFetcher)
            /\ UNCHANGED pending
       ELSE /\ \E queue \in BOOLEAN : pending' = IF queue THEN TRUE ELSE pending
            /\ UNCHANGED <<inflight, invoked>>
    /\ UNCHANGED <<running, schedFetcher, shown>>
    /\ UNCHANGED <<envVars, mainVars, funVars>>

\* the invocation in flight returns: its snapshot goes to the widget unless the
\* scheduler was stopped or the strategy raised; a queued invocation starts
Finish ==
    /\ inflight > 0
    /\ \E v \in Variations, high \in BOOLEAN :
         LET r == Call(invoked[Len(invoked)], v, high)
         IN  shown' = IF running /\ r.ok THEN r.data ELSE shown
    /\ IF running /\ pending
       THEN /\ invoked' = Append(invoked, schedFetcher)
            /\ UNCHANGED inflight
       ELSE /\ inflight' = inflight - 1
            /\ UNCHANGED invoked
    /\ pending' = FALSE
    /\ UNCHANGED <<running, ticks, schedFetcher>>
    /\ UNCHANGED <<envVars, mainVars, funVars>>

\* stop(): no further tick, nothing queued
Stop ==
    /\ running
    /\ running' = FALSE
    /\ pending' = FALSE
    /\ pc' = "closed"
    /\ UNCHANGED <<inflight, ticks, schedFetcher, invoked, shown>>
    /\ UNCHANGED <<fetcher, probe, probes, dialogs, warnings>>
    /\ UNCHANGED <<envVars, funVars>>

\* the provider starts or stops refusing calls while the widget runs
ProviderChange ==
    /\ pc = "run"
    /\ fault \in TransientFaults
    /\ \E f \in TransientFaults \ {fault} : fault' = f
    /\ UNCHANGED <<cfg, ledger, trail, halfUp, metrics>>
    /\ UNCHANGED <<mainVars, schedVars, funVars>>

Next ==
    \/ SelectSimulated
    \/ SelectNovember
    \/ SelectLive
    \/ CreateWidget
    \/ StartScheduler
    \/ Tick
    \/ Finish
    \/ Stop
    \/ ProviderChange

Spec == Init /\ [][Next]_vars

\* ------------------------------------------------- strategy selection

Simulated == "fetch_simulated_costs"

LiveMode == ~cfg.use_simulated_data /\ cfg.display_month # "november"

HistoricalMode == ~cfg.use_simulated_data /\ cfg.display_month = "november"

Selected == pc # "select"

Started == pc \in {"run", "closed"}

CredentialsError == "AWS credentials not found"

Shown(title, message) ==
    \E i \in 1..Len(dialogs) : dialogs[i] = [title |-> title, message |-> message]

OnlyInvoked(strategy) == \A i \in 1..Len(invoked) : invoked[i] = strategy

\* C1: in live current-period mode, once the test call of fetch_aws_costs has
\* raised, the fetcher is the simulated one, the scheduler is given and invokes
\* only the simulated one, and the error raised (the credentials error among
\* them) was shown in the "AWS Credentials Error" dialog.
C1_FailedProbeFallsBack ==
    (LiveMode /\ Selected /\ ~probe.ok) =>
        /\ probe.strategy = "fetch_aws_costs"
        /\ Shown("AWS Credentials Error", probe.error)
        /\ fetcher = Simulated
        /\ schedFetcher \in {"none", Simulated}
        /\ OnlyInvoked(Simulated)

\* C1 witness: the probe raised the credentials error and the scheduler has
\* invoked the simulated strategy.
C1_Witness ==
    /\ LiveMode
    /\ probe.error = CredentialsError
    /\ running
    /\ Len(invoked) >= 1

\* C2: in live current-period mode, a test call that returns a reported total of
\* exactly zero selects the simulated fetcher and prints the warning; one that
\* returns a non-zero total selects fetch_aws_costs; the scheduler is given the
\* fetcher selected.
C2_ZeroTotalFallsBack ==
    (LiveMode /\ Selected /\ probe.ok) =>
        /\ IF probe.month_to_date = 0
           THEN fetcher = Simulated /\ "Current month showing $0.00" \in Range(warnings)
           ELSE fetcher = "fetch_aws_costs" /\ warnings = << >>
        /\ dialogs = << >> \/ pc = "exit"
        /\ Started => schedFetcher = fetcher

\* C2 witness: usage was billed, the reported total rounds to 0.00, and the
\* scheduler runs the simulated strategy.
C2_Witness ==
    /\ LiveMode
    /\ probe.ok
    /\ probe.month_to_date = 0
    /\ ledger # << >>
    /\ running
    /\ schedFetcher = Simulated

\* C3: with a historical period configured (and no simulated data), selection
\* calls fetch_november_costs exactly once; a zero total selects the simulated
\* fetcher with a warning; fetch_november_costs is selected only after that call
\* returned a non-zero total.
C3_HistoricalSelection ==
    /\ (HistoricalMode /\ Selected) =>
          /\ probes = <<"fetch_november_costs">>
          /\ (probe.ok /\ probe.month_to_date = 0) =>
                (fetcher = Simulated /\ "No charges in November 2025" \in Range(warnings))
          /\ (probe.ok /\ probe.month_to_date # 0) => fetcher = "fetch_november_costs"
    /\ fetcher = "fetch_november_costs" =>
          (HistoricalMode /\ probe.ok /\ probe.month_to_date # 0)
    /\ (\E i \in 1..Len(invoked) : invoked[i] = "fetch_november_costs") =>
          (HistoricalMode /\ probe.ok /\ probe.month_to_date # 0)

\* C3 witness: the ledger of the period is not empty, its total is reported as
\* zero, and the simulated fetcher was selected.
C3_Witness ==
    /\ HistoricalMode
    /\ probe.ok
    /\ probe.month_to_date = 0
    /\ ledger # << >>
    /\ fetcher = Simulated
    /\ Started

\* C4: with use_simulated_data set, whatever display_month and the provider's
\* state, selection makes no test call and the scheduler is given, and invokes,
\* only fetch_simulated_costs.
C4_SimulatedUnconditional ==
    (cfg.use_simulated_data /\ Selected) =>
        /\ probes = << >>
        /\ probe = NoProbe
        /\ fetcher = Simulated
        /\ Started => schedFetcher = Simulated
        /\ OnlyInvoked(Simulated)

\* C4 witness: simulated data with the historical month configured and no
\* credentials; the scheduler runs the simulated strategy.
C4_Witness ==
    /\ cfg.use_simulated_data
    /\ cfg.display_month = "november"
    /\ fault = "NoCredentialsError"
    /\ running
    /\ Len(invoked) >= 1

C6_SingleFlight ==
    /\ inflight <= 1
    /\ pending => inflight = 1
    /\ Len(invoked) <= ticks

\* C6 witness: the second tick fired while the first invocation was in flight.
C6_Witness ==
    /\ ticks = 2
    /\ inflight = 1
    /\ Len(invoked) = 1

\* --------------------------------------------- the functions on their own

QuietEnv ==
    /\ cfg = [use_simulated_data |-> TRUE, display_month |-> "current"]
    /\ fault = "none"
    /\ ledger = << >>
    /\ halfUp = FALSE
    /\ metrics = QuietMetrics

QuietTrail == [avail |-> "ok", fails |-> {}, events |-> [s \in EventSources |-> 3]]

FunctionStart ==
    /\ pc = "call"
    /\ fetcher = "none"
    /\ probe = NoProbe
    /\ probes = << >>
    /\ dialogs = << >>
    /\ warnings = << >>

Done ==
    /\ pc' = "done"
    /\ UNCHANGED <<fetcher, probe, probes, dialogs, warnings>>
    /\ UNCHANGED <<envVars, schedVars>>

\* get_top_services on every list of up to MaxLen entries and every limit
RankNames == {"Amazon S3", "AWS WAF", "AWS Lambda", "Amazon EC2"}

RankEntries == [name : RankNames, cost : {1, 2}]

RankLists ==
    {s \in SeqsUpTo(RankEntries, MaxLen) :
        \A i, j \in 1..Len(s) : i # j => s[i].name # s[j].name}

InitRank ==
    /\ QuietEnv
    /\ trail = QuietTrail
    /\ FunctionStart
    /\ SchedulerIdle
    /\ input \in [services : RankLists, limit : 0..MaxLimit]
    /\ output = << >>

Rank ==
    /\ pc = "call"
    /\ output' = get_top_services(input.services, input.limit)
    /\ UNCHANGED input
    /\ Done

NextRank == Rank

SpecRank == InitRank /\ [][NextRank]_vars

\* fetch_service_activity on every batch of up to MaxNames names
InitActivity ==
    /\ QuietEnv
    /\ trail \in Trails
    /\ FunctionStart
    /\ SchedulerIdle
    /\ input \in SeqsUpTo(ActivityNames, MaxNames)
    /\ output = << >>

Augment ==
    /\ pc = "call"
    /\ output' = fetch_service_activity(input, trail)
    /\ UNCHANGED input
    /\ Done

NextActivity == Augment

SpecActivity == InitActivity /\ [][NextActivity]_vars

\* the Cost Explorer strategies on every ledger of up to MaxRows rows
InitFetch ==
    /\ cfg = [use_simulated_data |-> FALSE, display_month |-> "current"]
    /\ fault \in Faults
    /\ ledger \in Ledgers
    /\ trail \in FetchTrails
    /\ halfUp \in BOOLEAN
    /\ metrics = QuietMetrics
    /\ FunctionStart
    /\ SchedulerIdle
    /\ input = "none"
    /\ output = Raised("none")

RunBeforeCredits ==
    /\ pc = "call"
    /\ input' = "fetch_aws_costs_before_credits"
    /\ output' = fetch_aws_costs_before_credits(fault, ledger, trail, halfUp)
    /\ Done

RunNovember ==
    /\ pc = "call"
    /\ input' = "fetch_november_costs"
    /\ output' = fetch_november_costs(fault, ledger, halfUp)
    /\ Done

NextFetch ==
    \/ RunBeforeCredits
    \/ RunNovember

SpecFetch == InitFetch /\ [][NextFetch]_vars

\* ---------------------------------------------------- CreditAdjustedUsage

RECURSIVE SumAmounts(_, _)
SumAmounts(rows, I) ==
    IF I = {} THEN 0
    ELSE LET i == CHOOSE k \in I : TRUE
         IN  rows[i].amount + SumAmounts(rows, I \ {i})

OfType(rows, record_type) == {i \in 1..Len(rows) : rows[i].record_type = record_type}

GrossUsage(rows) == SumAmounts(rows, OfType(rows, "Usage"))

CreditTotal(rows) == SumAmounts(rows, OfType(rows, "Credit"))

\* C7: the month_to_date fetch_aws_costs_before_credits reports is the sum of
\* the amounts of record type "Usage", rounded to 2 decimals: no "Credit" amount
\* (and no amount of another record type) enters it.
C7_GrossUsageReported ==
    (pc = "done" /\ input = "fetch_aws_costs_before_credits" /\ output.ok) =>
        output.data.month_to_date = Round2(GrossUsage(ledger), halfUp)

\* C7 witness: a ledger with usage and a credit whose net total rounds to less
\* than the total reported.
C7_Witness ==
    /\ pc = "done"
    /\ input = "fetch_aws_costs_before_credits"
    /\ output.ok
    /\ OfType(ledger, "Credit") # {}
    /\ output.data.month_to_date > 0
    /\ Round2(GrossUsage(ledger) + CreditTotal(ledger), halfUp) < output.data.month_to_date

\* ------------------------------------------------------ ActivityAugmenter

\* C8: the dict has an entry for every requested name; with the CloudTrail
\* client available, a name whose lookup raises has 0, every other name has the
\* count its own lookup returned, and one lookup was issued per requested name,
\* in order, whatever failed before it.
C8_FailureIsolation ==
    (pc = "done") =>
        /\ DOMAIN output.activity = Range(input)
        /\ trail.avail = "ok" =>
              /\ \A n \in Range(input) :
                    output.activity[n] =
                        IF n \in trail.fails THEN 0
                        ELSE Min(trail.events[EventSource(n)], MaxResults)
              /\ output.queried = [i \in 1..Len(input) |-> EventSource(input[i])]
        /\ trail.avail # "ok" =>
              /\ \A n \in Range(input) : output.activity[n] = 0
              /\ output.queried = << >>

\* C8 witness: a failing lookup came before a lookup that returned events, and
\* that count (capped at MaxResults) is in the result.
C8_Witness ==
    /\ pc = "done"
    /\ trail.avail = "ok"
    /\ \E i, j \in 1..Len(input) :
          /\ i < j
          /\ input[i] \in trail.fails
          /\ input[j] \notin trail.fails
          /\ output.activity[input[i]] = 0
          /\ output.activity[input[j]] = MaxResults

\* ------------------------------------------------------- TopServiceRanker

IndexIn(s, e) == CHOOSE i \in 1..Len(s) : s[i] = e

\* C9: the list get_top_services returns is sorted by cost, descending, is not
\* longer than the limit, holds entries of the input (each at most once), and
\* keeps entries of equal cost in their input order; for an empty input it is
\* empty.
C9_RankedTopN ==
    (pc = "done") =>
        /\ Len(output) <= input.limit
        /\ \A i, j \in 1..Len(output) : i < j => output[i].cost >= output[j].cost
        /\ \A i \in 1..Len(output) : output[i] \in Range(input.services)
        /\ \A i, j \in 1..Len(output) : i # j => output[i] # output[j]
        /\ \A i, j \in 1..Len(output) :
              (i < j /\ output[i].cost = output[j].cost) =>
                  IndexIn(input.services, output[i]) < IndexIn(input.services, output[j])
        /\ input.services = << >> => output = << >>

\* C9 witness: the list was cut to the limit, its first entry was not the
\* input's first, and two entries of equal cost are in the result.
C9_Witness ==
    /\ pc = "done"
    /\ Len(input.services) > input.limit
    /\ Len(output) >= 2
    /\ output[1].cost = output[2].cost
    /\ output[1] # input.services[1]

\* ----------------------------------------------------- negligible entries

\* C10: no entry of top_services in a snapshot a strategy returns has a cost
\* under the negligible threshold (costs are in cents, the threshold in mills).
C10_NoNegligibleEntry ==
    (pc = "done" /\ output.ok) =>
        \A i \in 1..Len(output.data.top_services) :
            output.data.top_services[i].cost * 10 >= Threshold

\* ------------------------------------------------ AggregateBillingMetric

Point(t, v) == [Timestamp |-> t, Maximum |-> v]

\* answers to the aggregate query: none, a zero total, two hourly points in
\* either order
MetricTotals ==
    {<< >>, <<Point(1, 0)>>, <<Point(1, 26), Point(2, 40)>>, <<Point(2, 40), Point(1, 26)>>}

\* answers to a per-service query: none, a negligible cost, a cost
ServicePoints == {<< >>, <<Point(1, 1)>>, <<Point(2, 14), Point(1, 2)>>}

MetricServices == {"AmazonS3", "AWSWAF"}

MetricEnvs ==
    [fault : {"none", "NoCredentialsError"},
     total : MetricTotals,
     services : [MetricServices -> ServicePoints],
     fails : SUBSET MetricServices]

InitMetric ==
    /\ cfg = [use_simulated_data |-> FALSE, display_month |-> "current"]
    /\ fault \in {"none", "AccessDenied"}
    /\ ledger \in RunLedgers
    /\ trail \in RunTrails
    /\ halfUp \in BOOLEAN
    /\ metrics \in MetricEnvs
    /\ FunctionStart
    /\ SchedulerIdle
    /\ input = "none"
    /\ output = [result |-> Raised("none"), explorer_calls |-> 0]

RunCloudwatch ==
    /\ pc = "call"
    /\ input' = "fetch_cloudwatch_billing_metrics"
    /\ output' = CloudwatchRun(metrics, fault, ledger, trail, halfUp)
    /\ Done

NextMetric == RunCloudwatch

SpecMetric == InitMetric /\ [][NextMetric]_vars

\* the point of the latest timestamp
Newest(points) == CHOOSE p \in Range(points) : \A q \in Range(points) : q.Timestamp <= p.Timestamp

AggregateTotal(m) == IF m.total = << >> THEN 0 ELSE Newest(m.total).Maximum

\* the per-service queries that put an entry in the breakdown
MetricEntries(m) ==
    {x \in Range(services_to_check) :
        /\ x \notin m.fails
        /\ MetricPoints(m, x) # << >>
        /\ Newest(MetricPoints(m, x)).Maximum > Threshold}

Breakdown(top_services) ==
    [i \in 1..Len(top_services) |->
        [name |-> top_services[i].name, cost |-> top_services[i].cost]]

\* C11: fetch_cloudwatch_billing_metrics calls fetch_cost_explorer_services
\* (once) exactly when the per-service metric loop put no entry in the breakdown
\* (a failed query puts none) and the aggregate total is positive; the breakdown is
\* then the ledger's, and month_to_date is the aggregate total in every case.
C11_LedgerFallback ==
    (pc = "done" /\ output.result.ok) =>
        /\ output.explorer_calls =
              (IF MetricEntries(metrics) = {} /\ AggregateTotal(metrics) > 0 THEN 1 ELSE 0)
        /\ output.result.data.month_to_date = Round2(AggregateTotal(metrics), halfUp)
        /\ output.explorer_calls = 1 =>
              Breakdown(output.result.data.top_services) =
                  get_top_services(fetch_cost_explorer_services(fault, ledger, halfUp),
                                   DefaultLimit)
        /\ output.explorer_calls = 0 =>
              {output.result.data.top_services[i].name :
                    i \in 1..Len(output.result.data.top_services)}
                  = {readable_name[x] : x \in MetricEntries(metrics)}

\* C11 witness: every per-service metric query failed although the services have
\* charges, the aggregate total is positive, and the breakdown came from the
\* ledger while the total did not.
C11_Witness ==
    /\ pc = "done"
    /\ output.result.ok
    /\ metrics.fails = MetricServices
    /\ \A x \in MetricServices : metrics.services[x] = <<Point(2, 14), Point(1, 2)>>
    /\ output.explorer_calls = 1
    /\ output.result.data.top_services # << >>
    /\ output.result.data.month_to_date = 4
    /\ output.result.data.top_services[1].cost = 1

\* ------------------------------------------------------- SimulatedSource

\* fetch_simulated_costs on every choice of the samples among Variations
InitSim ==
    /\ QuietEnv
    /\ trail = QuietTrail
    /\ FunctionStart
    /\ SchedulerIdle
    /\ input \in [variation : [1..Len(SimServiceCosts) -> Variations], high : BOOLEAN]
    /\ output = Raised("none")

RunSimulated ==
    /\ pc = "call"
    /\ output' = fetch_simulated_costs(input.variation, input.high, halfUp)
    /\ UNCHANGED input
    /\ Done

NextSim == RunSimulated

SpecSim == InitSim /\ [][NextSim]_vars

\* the base cost of a service of the table, in cents
BaseCost(name) ==
    LET i == CHOOSE k \in 1..Len(SimServiceCosts) : SimServiceCosts[k].name = name
    IN  SimServiceCosts[i].cost

BaseTotal == SumCosts(SimServiceCosts, 1)

\* the total is within 10% of the base total
TotalWithinTenPercent(data) ==
    /\ 1000 * data.month_to_date >= 900 * BaseTotal
    /\ 1000 * data.month_to_date <= 1100 * BaseTotal

\* C12 as claimed: the total is within 10% of the base total and every cost
\* reported, rounded to 2 decimals, is within 10% of its base cost.
C12_WithinTenPercent ==
    (pc = "done") =>
        /\ TotalWithinTenPercent(output.data)
        /\ \A i \in 1..Len(output.data.top_services) :
              LET e == output.data.top_services[i]
              IN  /\ 1000 * e.cost >= 900 * BaseCost(e.name)
                  /\ 1000 * e.cost <= 1100 * BaseCost(e.name)

\* C12 amended: the total is within 10% of the base total, and every cost
\* reported is within 10% of its base cost up to the rounding to a cent (half a
\* cent either way).
C12_WithinTenPercentAndRounding ==
    (pc = "done") =>
        /\ TotalWithinTenPercent(output.data)
        /\ \A i \in 1..Len(output.data.top_services) :
              LET e == output.data.top_services[i]
              IN  /\ 1000 * e.cost >= 900 * BaseCost(e.name) - 500
                  /\ 1000 * e.cost <= 1100 * BaseCost(e.name) + 500

\* C12 witness: the sample 1.1 on the base cost 1.48 is reported as 1.63, above
\* 1.628, and the sample 0.9 on 0.34 as 0.31.
C12_Witness ==
    /\ pc = "done"
    /\ \E i, j \in 1..Len(output.data.top_services) :
          /\ output.data.top_services[i].name = "AWS WAF"
          /\ output.data.top_services[i].cost = 163
          /\ output.data.top_services[j].name = "AWS Amplify"
          /\ output.data.top_services[j].cost = 31

\* ------------------------------------------------------ strategy errors

\* what a Cost Explorer call raises on a credential or authorization failure:
\* no credentials found, or the caller is not authorized for ce:GetCostAndUsage
CredentialFaults == {"NoCredentialsError", "AccessDenied"}

\* C13: a strategy raises the credentials error (the one with the three
\* remediation steps) exactly on a credential or authorization failure of the
\* provider call, the "boto3 is required" error exactly when the client library
\* is missing, and the provider's own error otherwise.
C13_CredentialsSignalled ==
    (pc = "done") =>
        /\ output.error = CredentialsError <=> fault \in CredentialFaults
        /\ output.error = "boto3 is required for AWS integration" <=> fault = "ImportError"
        /\ output.ok <=> fault = "none"

\* ---------------------------------------------------------- CostSnapshot

AllReadableNames == {readable_name[x] : x \in Range(services_to_check)}

\* every service of the checklist has a charge of its own
BusyMetrics ==
    [fault |-> "none",
     total |-> <<Point(1, 400)>>,
     services |-> [x \in Range(services_to_check) |-> <<Point(1, 10 + 2 * Len(x))>>],
     fails |-> {}]

BusyTrail ==
    [avail |-> "ok", fails |-> {},
     events |-> [src \in {EventSource(n) : n \in AllReadableNames} |-> 3]]

\* each strategy on its inputs: `input` names the strategy about to run
InitSnapshot ==
    /\ cfg = [use_simulated_data |-> FALSE, display_month |-> "current"]
    /\ \/ /\ input = "fetch_simulated_costs"
          /\ fault = "none" /\ ledger = << >> /\ trail = QuietTrail
          /\ halfUp \in BOOLEAN /\ metrics = QuietMetrics
       \/ /\ input \in {"fetch_aws_costs_before_credits", "fetch_november_costs"}
          /\ fault = "none" /\ ledger \in Ledgers /\ trail \in RunTrails
          /\ halfUp \in BOOLEAN /\ metrics = QuietMetrics
       \/ /\ input = "fetch_cloudwatch_billing_metrics"
          /\ fault = "none" /\ ledger \in RunLedgers /\ trail \in RunTrails
          /\ halfUp \in BOOLEAN /\ metrics \in {m \in MetricEnvs : m.fault = "none"}
       \/ /\ input = "fetch_cloudwatch_billing_metrics"
          /\ fault = "none" /\ ledger = << >> /\ trail = BusyTrail
          /\ halfUp \in BOOLEAN /\ metrics = BusyMetrics
    /\ FunctionStart
    /\ SchedulerIdle
    /\ output = Raised("none")

SnapSimulated ==
    /\ pc = "call"
    /\ input = "fetch_simulated_costs"
    /\ \E variation \in [1..Len(SimServiceCosts) -> Variations], high \in BOOLEAN :
          output' = fetch_simulated_costs(variation, high, halfUp)
    /\ UNCHANGED input
    /\ Done

SnapBeforeCredits ==
    /\ pc = "call"
    /\ input = "fetch_aws_costs_before_credits"
    /\ output' = fetch_aws_costs_before_credits(fault, ledger, trail, halfUp)
    /\ UNCHANGED input
    /\ Done

SnapNovember ==
    /\ pc = "call"
    /\ input = "fetch_november_costs"
    /\ output' = fetch_november_costs(fault, ledger, halfUp)
    /\ UNCHANGED input
    /\ Done

SnapCloudwatch ==
    /\ pc = "call"
    /\ input = "fetch_cloudwatch_billing_metrics"
    /\ output' = fetch_cloudwatch_billing_metrics(metrics, fault, ledger, trail, halfUp)
    /\ UNCHANGED input
    /\ Done

NextSnapshot ==
    \/ SnapSimulated
    \/ SnapBeforeCredits
    \/ SnapNovember
    \/ SnapCloudwatch

SpecSnapshot == InitSnapshot /\ [][NextSnapshot]_vars

\* C14 as claimed: in every snapshot a strategy returns, top_services is
\* strictly descending by cost and holds at most DefaultLimit entries.
C14_StrictlyDescending ==
    (pc = "done" /\ output.ok) =>
        LET top == output.data.top_services
        IN  /\ Len(top) <= DefaultLimit
            /\ \A i \in 1..(Len(top) - 1) : top[i].cost > top[i + 1].cost

\* C14 amended: in every snapshot a strategy returns, top_services is descending
\* by cost, entries of equal cost allowed, and holds at most DefaultLimit entries.
C14_Descending ==
    (pc = "done" /\ output.ok) =>
        LET top == output.data.top_services
        IN  /\ Len(top) <= DefaultLimit
            /\ \A i \in 1..(Len(top) - 1) : top[i].cost >= top[i + 1].cost

\* C14 witness: a simulated snapshot whose last three services cost the same.
C14_Witness ==
    /\ pc = "done"
    /\ input = "fetch_simulated_costs"
    /\ Len(output.data.top_services) = Len(SimServiceCosts)
    /\ output.data.top_services[5].cost = output.data.top_services[7].cost
    /\ output.data.top_services[1].cost > output.data.top_services[2].cost

\* a snapshot cut to DefaultLimit entries: more services than that have charges
Snapshot_Truncated ==
    /\ pc = "done"
    /\ Cardinality(MetricEntries(metrics)) > DefaultLimit
    /\ Len(output.data.top_services) = DefaultLimit

====
